---------------------------- MODULE Spec2Model ----------------------------
(***************************************************************************)
(* Model of fix-hooks-final.py: a regular-expression rewrite (fix_file's   *)
(* pattern / replacer / re.sub) applied by a sequential batch driver to a  *)
(* fixed list of files.                                                    *)
(*                                                                         *)
(* Text is a sequence of characters.  The regular expression is matched    *)
(* character by character, as Python's re module matches it.              *)
(***************************************************************************)
EXTENDS Integers, Sequences, FiniteSets, TLC

VARIABLES
    text,      \* rewrite harness: the input text T
    out1,      \* rewrite harness: re.sub(pattern, replacer, T)
    out2,      \* rewrite harness: re.sub(pattern, replacer, out1)
    changed1,  \* rewrite harness: the changed flag of rewrite(T)
    changed2,  \* rewrite harness: the changed flag of rewrite(out1)
    stage,     \* rewrite harness: "input", "once", "twice" ("idle" in the driver)
    disk,      \* driver: stored content of each listed file, or Missing
    disk0,     \* driver: the stored content before the batch started (history)
    idx,       \* driver: position in `files` of the file being processed
    pc,        \* driver: position inside fix_file / the main script
    content,   \* driver: fix_file's local `content`
    original,  \* driver: fix_file's local `original`
    outcome,   \* driver: what was printed for each file ("none" before it is processed)
    log,       \* driver: the files for which a line was printed, in print order
    fixed      \* driver: the running sum of fix_file's return values

vars == <<text, out1, out2, changed1, changed2, stage, disk, disk0, idx, pc, content, original,
          outcome, log, fixed>>

rewriteVars == <<text, out1, out2, changed1, changed2, stage>>
driverVars == <<disk, disk0, idx, pc, content, original, outcome, log, fixed>>

-----------------------------------------------------------------------------
(* Bounds of the model.                                                    *)

\* Longest run of parameter lines generated in an input block.
MaxParams == 2
\* Largest number of empty lines generated between preamble and parameters.
MaxBlanks == 2
\* Number of files in the modelled file list (the script lists 21).
NumFiles == 2

-----------------------------------------------------------------------------
(* Characters and literals of the pattern.                                 *)
(*                                                                         *)
(* A character is its Unicode code point, a text a sequence of code        *)
(* points: Python's str.  The comments give the text of each literal.      *)

NL == 10     \* "\n"
CR == 13     \* "\r"
SP == 32     \* " "
GT == 62     \* ">"
COMMA == 44  \* ","

\* \w of a str pattern without flags: "_" and every character c with
\* c.isalnum(), as the closed ranges of code points of Unicode 14.0.0
WordRanges == {
    <<48,57>>, <<65,90>>, <<95,95>>, <<97,122>>, <<170,170>>, <<178,179>>,
    <<181,181>>, <<185,186>>, <<188,190>>, <<192,214>>, <<216,246>>,
    <<248,705>>, <<710,721>>, <<736,740>>, <<748,748>>, <<750,750>>,
    <<880,884>>, <<886,887>>, <<890,893>>, <<895,895>>, <<902,902>>,
    <<904,906>>, <<908,908>>, <<910,929>>, <<931,1013>>, <<1015,1153>>,
    <<1162,1327>>, <<1329,1366>>, <<1369,1369>>, <<1376,1416>>,
    <<1488,1514>>, <<1519,1522>>, <<1568,1610>>, <<1632,1641>>,
    <<1646,1647>>, <<1649,1747>>, <<1749,1749>>, <<1765,1766>>,
    <<1774,1788>>, <<1791,1791>>, <<1808,1808>>, <<1810,1839>>,
    <<1869,1957>>, <<1969,1969>>, <<1984,2026>>, <<2036,2037>>,
    <<2042,2042>>, <<2048,2069>>, <<2074,2074>>, <<2084,2084>>,
    <<2088,2088>>, <<2112,2136>>, <<2144,2154>>, <<2160,2183>>,
    <<2185,2190>>, <<2208,2249>>, <<2308,2361>>, <<2365,2365>>,
    <<2384,2384>>, <<2392,2401>>, <<2406,2415>>, <<2417,2432>>,
    <<2437,2444>>, <<2447,2448>>, <<2451,2472>>, <<2474,2480>>,
    <<2482,2482>>, <<2486,2489>>, <<2493,2493>>, <<2510,2510>>,
    <<2524,2525>>, <<2527,2529>>, <<2534,2545>>, <<2548,2553>>,
    <<2556,2556>>, <<2565,2570>>, <<2575,2576>>, <<2579,2600>>,
    <<2602,2608>>, <<2610,2611>>, <<2613,2614>>, <<2616,2617>>,
    <<2649,2652>>, <<2654,2654>>, <<2662,2671>>, <<2674,2676>>,
    <<2693,2701>>, <<2703,2705>>, <<2707,2728>>, <<2730,2736>>,
    <<2738,2739>>, <<2741,2745>>, <<2749,2749>>, <<2768,2768>>,
    <<2784,2785>>, <<2790,2799>>, <<2809,2809>>, <<2821,2828>>,
    <<2831,2832>>, <<2835,2856>>, <<2858,2864>>, <<2866,2867>>,
    <<2869,2873>>, <<2877,2877>>, <<2908,2909>>, <<2911,2913>>,
    <<2918,2927>>, <<2929,2935>>, <<2947,2947>>, <<2949,2954>>,
    <<2958,2960>>, <<2962,2965>>, <<2969,2970>>, <<2972,2972>>,
    <<2974,2975>>, <<2979,2980>>, <<2984,2986>>, <<2990,3001>>,
    <<3024,3024>>, <<3046,3058>>, <<3077,3084>>, <<3086,3088>>,
    <<3090,3112>>, <<3114,3129>>, <<3133,3133>>, <<3160,3162>>,
    <<3165,3165>>, <<3168,3169>>, <<3174,3183>>, <<3192,3198>>,
    <<3200,3200>>, <<3205,3212>>, <<3214,3216>>, <<3218,3240>>,
    <<3242,3251>>, <<3253,3257>>, <<3261,3261>>, <<3293,3294>>,
    <<3296,3297>>, <<3302,3311>>, <<3313,3314>>, <<3332,3340>>,
    <<3342,3344>>, <<3346,3386>>, <<3389,3389>>, <<3406,3406>>,
    <<3412,3414>>, <<3416,3425>>, <<3430,3448>>, <<3450,3455>>,
    <<3461,3478>>, <<3482,3505>>, <<3507,3515>>, <<3517,3517>>,
    <<3520,3526>>, <<3558,3567>>, <<3585,3632>>, <<3634,3635>>,
    <<3648,3654>>, <<3664,3673>>, <<3713,3714>>, <<3716,3716>>,
    <<3718,3722>>, <<3724,3747>>, <<3749,3749>>, <<3751,3760>>,
    <<3762,3763>>, <<3773,3773>>, <<3776,3780>>, <<3782,3782>>,
    <<3792,3801>>, <<3804,3807>>, <<3840,3840>>, <<3872,3891>>,
    <<3904,3911>>, <<3913,3948>>, <<3976,3980>>, <<4096,4138>>,
    <<4159,4169>>, <<4176,4181>>, <<4186,4189>>, <<4193,4193>>,
    <<4197,4198>>, <<4206,4208>>, <<4213,4225>>, <<4238,4238>>,
    <<4240,4249>>, <<4256,4293>>, <<4295,4295>>, <<4301,4301>>,
    <<4304,4346>>, <<4348,4680>>, <<4682,4685>>, <<4688,4694>>,
    <<4696,4696>>, <<4698,4701>>, <<4704,4744>>, <<4746,4749>>,
    <<4752,4784>>, <<4786,4789>>, <<4792,4798>>, <<4800,4800>>,
    <<4802,4805>>, <<4808,4822>>, <<4824,4880>>, <<4882,4885>>,
    <<4888,4954>>, <<4969,4988>>, <<4992,5007>>, <<5024,5109>>,
    <<5112,5117>>, <<5121,5740>>, <<5743,5759>>, <<5761,5786>>,
    <<5792,5866>>, <<5870,5880>>, <<5888,5905>>, <<5919,5937>>,
    <<5952,5969>>, <<5984,5996>>, <<5998,6000>>, <<6016,6067>>,
    <<6103,6103>>, <<6108,6108>>, <<6112,6121>>, <<6128,6137>>,
    <<6160,6169>>, <<6176,6264>>, <<6272,6276>>, <<6279,6312>>,
    <<6314,6314>>, <<6320,6389>>, <<6400,6430>>, <<6470,6509>>,
    <<6512,6516>>, <<6528,6571>>, <<6576,6601>>, <<6608,6618>>,
    <<6656,6678>>, <<6688,6740>>, <<6784,6793>>, <<6800,6809>>,
    <<6823,6823>>, <<6917,6963>>, <<6981,6988>>, <<6992,7001>>,
    <<7043,7072>>, <<7086,7141>>, <<7168,7203>>, <<7232,7241>>,
    <<7245,7293>>, <<7296,7304>>, <<7312,7354>>, <<7357,7359>>,
    <<7401,7404>>, <<7406,7411>>, <<7413,7414>>, <<7418,7418>>,
    <<7424,7615>>, <<7680,7957>>, <<7960,7965>>, <<7968,8005>>,
    <<8008,8013>>, <<8016,8023>>, <<8025,8025>>, <<8027,8027>>,
    <<8029,8029>>, <<8031,8061>>, <<8064,8116>>, <<8118,8124>>,
    <<8126,8126>>, <<8130,8132>>, <<8134,8140>>, <<8144,8147>>,
    <<8150,8155>>, <<8160,8172>>, <<8178,8180>>, <<8182,8188>>,
    <<8304,8305>>, <<8308,8313>>, <<8319,8329>>, <<8336,8348>>,
    <<8450,8450>>, <<8455,8455>>, <<8458,8467>>, <<8469,8469>>,
    <<8473,8477>>, <<8484,8484>>, <<8486,8486>>, <<8488,8488>>,
    <<8490,8493>>, <<8495,8505>>, <<8508,8511>>, <<8517,8521>>,
    <<8526,8526>>, <<8528,8585>>, <<9312,9371>>, <<9450,9471>>,
    <<10102,10131>>, <<11264,11492>>, <<11499,11502>>, <<11506,11507>>,
    <<11517,11517>>, <<11520,11557>>, <<11559,11559>>, <<11565,11565>>,
    <<11568,11623>>, <<11631,11631>>, <<11648,11670>>, <<11680,11686>>,
    <<11688,11694>>, <<11696,11702>>, <<11704,11710>>, <<11712,11718>>,
    <<11720,11726>>, <<11728,11734>>, <<11736,11742>>, <<11823,11823>>,
    <<12293,12295>>, <<12321,12329>>, <<12337,12341>>, <<12344,12348>>,
    <<12353,12438>>, <<12445,12447>>, <<12449,12538>>, <<12540,12543>>,
    <<12549,12591>>, <<12593,12686>>, <<12690,12693>>, <<12704,12735>>,
    <<12784,12799>>, <<12832,12841>>, <<12872,12879>>, <<12881,12895>>,
    <<12928,12937>>, <<12977,12991>>, <<13312,19903>>, <<19968,42124>>,
    <<42192,42237>>, <<42240,42508>>, <<42512,42539>>, <<42560,42606>>,
    <<42623,42653>>, <<42656,42735>>, <<42775,42783>>, <<42786,42888>>,
    <<42891,42954>>, <<42960,42961>>, <<42963,42963>>, <<42965,42969>>,
    <<42994,43009>>, <<43011,43013>>, <<43015,43018>>, <<43020,43042>>,
    <<43056,43061>>, <<43072,43123>>, <<43138,43187>>, <<43216,43225>>,
    <<43250,43255>>, <<43259,43259>>, <<43261,43262>>, <<43264,43301>>,
    <<43312,43334>>, <<43360,43388>>, <<43396,43442>>, <<43471,43481>>,
    <<43488,43492>>, <<43494,43518>>, <<43520,43560>>, <<43584,43586>>,
    <<43588,43595>>, <<43600,43609>>, <<43616,43638>>, <<43642,43642>>,
    <<43646,43695>>, <<43697,43697>>, <<43701,43702>>, <<43705,43709>>,
    <<43712,43712>>, <<43714,43714>>, <<43739,43741>>, <<43744,43754>>,
    <<43762,43764>>, <<43777,43782>>, <<43785,43790>>, <<43793,43798>>,
    <<43808,43814>>, <<43816,43822>>, <<43824,43866>>, <<43868,43881>>,
    <<43888,44002>>, <<44016,44025>>, <<44032,55203>>, <<55216,55238>>,
    <<55243,55291>>, <<63744,64109>>, <<64112,64217>>, <<64256,64262>>,
    <<64275,64279>>, <<64285,64285>>, <<64287,64296>>, <<64298,64310>>,
    <<64312,64316>>, <<64318,64318>>, <<64320,64321>>, <<64323,64324>>,
    <<64326,64433>>, <<64467,64829>>, <<64848,64911>>, <<64914,64967>>,
    <<65008,65019>>, <<65136,65140>>, <<65142,65276>>, <<65296,65305>>,
    <<65313,65338>>, <<65345,65370>>, <<65382,65470>>, <<65474,65479>>,
    <<65482,65487>>, <<65490,65495>>, <<65498,65500>>, <<65536,65547>>,
    <<65549,65574>>, <<65576,65594>>, <<65596,65597>>, <<65599,65613>>,
    <<65616,65629>>, <<65664,65786>>, <<65799,65843>>, <<65856,65912>>,
    <<65930,65931>>, <<66176,66204>>, <<66208,66256>>, <<66273,66299>>,
    <<66304,66339>>, <<66349,66378>>, <<66384,66421>>, <<66432,66461>>,
    <<66464,66499>>, <<66504,66511>>, <<66513,66517>>, <<66560,66717>>,
    <<66720,66729>>, <<66736,66771>>, <<66776,66811>>, <<66816,66855>>,
    <<66864,66915>>, <<66928,66938>>, <<66940,66954>>, <<66956,66962>>,
    <<66964,66965>>, <<66967,66977>>, <<66979,66993>>, <<66995,67001>>,
    <<67003,67004>>, <<67072,67382>>, <<67392,67413>>, <<67424,67431>>,
    <<67456,67461>>, <<67463,67504>>, <<67506,67514>>, <<67584,67589>>,
    <<67592,67592>>, <<67594,67637>>, <<67639,67640>>, <<67644,67644>>,
    <<67647,67669>>, <<67672,67702>>, <<67705,67742>>, <<67751,67759>>,
    <<67808,67826>>, <<67828,67829>>, <<67835,67867>>, <<67872,67897>>,
    <<67968,68023>>, <<68028,68047>>, <<68050,68096>>, <<68112,68115>>,
    <<68117,68119>>, <<68121,68149>>, <<68160,68168>>, <<68192,68222>>,
    <<68224,68255>>, <<68288,68295>>, <<68297,68324>>, <<68331,68335>>,
    <<68352,68405>>, <<68416,68437>>, <<68440,68466>>, <<68472,68497>>,
    <<68521,68527>>, <<68608,68680>>, <<68736,68786>>, <<68800,68850>>,
    <<68858,68899>>, <<68912,68921>>, <<69216,69246>>, <<69248,69289>>,
    <<69296,69297>>, <<69376,69415>>, <<69424,69445>>, <<69457,69460>>,
    <<69488,69505>>, <<69552,69579>>, <<69600,69622>>, <<69635,69687>>,
    <<69714,69743>>, <<69745,69746>>, <<69749,69749>>, <<69763,69807>>,
    <<69840,69864>>, <<69872,69881>>, <<69891,69926>>, <<69942,69951>>,
    <<69956,69956>>, <<69959,69959>>, <<69968,70002>>, <<70006,70006>>,
    <<70019,70066>>, <<70081,70084>>, <<70096,70106>>, <<70108,70108>>,
    <<70113,70132>>, <<70144,70161>>, <<70163,70187>>, <<70272,70278>>,
    <<70280,70280>>, <<70282,70285>>, <<70287,70301>>, <<70303,70312>>,
    <<70320,70366>>, <<70384,70393>>, <<70405,70412>>, <<70415,70416>>,
    <<70419,70440>>, <<70442,70448>>, <<70450,70451>>, <<70453,70457>>,
    <<70461,70461>>, <<70480,70480>>, <<70493,70497>>, <<70656,70708>>,
    <<70727,70730>>, <<70736,70745>>, <<70751,70753>>, <<70784,70831>>,
    <<70852,70853>>, <<70855,70855>>, <<70864,70873>>, <<71040,71086>>,
    <<71128,71131>>, <<71168,71215>>, <<71236,71236>>, <<71248,71257>>,
    <<71296,71338>>, <<71352,71352>>, <<71360,71369>>, <<71424,71450>>,
    <<71472,71483>>, <<71488,71494>>, <<71680,71723>>, <<71840,71922>>,
    <<71935,71942>>, <<71945,71945>>, <<71948,71955>>, <<71957,71958>>,
    <<71960,71983>>, <<71999,71999>>, <<72001,72001>>, <<72016,72025>>,
    <<72096,72103>>, <<72106,72144>>, <<72161,72161>>, <<72163,72163>>,
    <<72192,72192>>, <<72203,72242>>, <<72250,72250>>, <<72272,72272>>,
    <<72284,72329>>, <<72349,72349>>, <<72368,72440>>, <<72704,72712>>,
    <<72714,72750>>, <<72768,72768>>, <<72784,72812>>, <<72818,72847>>,
    <<72960,72966>>, <<72968,72969>>, <<72971,73008>>, <<73030,73030>>,
    <<73040,73049>>, <<73056,73061>>, <<73063,73064>>, <<73066,73097>>,
    <<73112,73112>>, <<73120,73129>>, <<73440,73458>>, <<73648,73648>>,
    <<73664,73684>>, <<73728,74649>>, <<74752,74862>>, <<74880,75075>>,
    <<77712,77808>>, <<77824,78894>>, <<82944,83526>>, <<92160,92728>>,
    <<92736,92766>>, <<92768,92777>>, <<92784,92862>>, <<92864,92873>>,
    <<92880,92909>>, <<92928,92975>>, <<92992,92995>>, <<93008,93017>>,
    <<93019,93025>>, <<93027,93047>>, <<93053,93071>>, <<93760,93846>>,
    <<93952,94026>>, <<94032,94032>>, <<94099,94111>>, <<94176,94177>>,
    <<94179,94179>>, <<94208,100343>>, <<100352,101589>>, <<101632,101640>>,
    <<110576,110579>>, <<110581,110587>>, <<110589,110590>>,
    <<110592,110882>>, <<110928,110930>>, <<110948,110951>>,
    <<110960,111355>>, <<113664,113770>>, <<113776,113788>>,
    <<113792,113800>>, <<113808,113817>>, <<119520,119539>>,
    <<119648,119672>>, <<119808,119892>>, <<119894,119964>>,
    <<119966,119967>>, <<119970,119970>>, <<119973,119974>>,
    <<119977,119980>>, <<119982,119993>>, <<119995,119995>>,
    <<119997,120003>>, <<120005,120069>>, <<120071,120074>>,
    <<120077,120084>>, <<120086,120092>>, <<120094,120121>>,
    <<120123,120126>>, <<120128,120132>>, <<120134,120134>>,
    <<120138,120144>>, <<120146,120485>>, <<120488,120512>>,
    <<120514,120538>>, <<120540,120570>>, <<120572,120596>>,
    <<120598,120628>>, <<120630,120654>>, <<120656,120686>>,
    <<120688,120712>>, <<120714,120744>>, <<120746,120770>>,
    <<120772,120779>>, <<120782,120831>>, <<122624,122654>>,
    <<123136,123180>>, <<123191,123197>>, <<123200,123209>>,
    <<123214,123214>>, <<123536,123565>>, <<123584,123627>>,
    <<123632,123641>>, <<124896,124902>>, <<124904,124907>>,
    <<124909,124910>>, <<124912,124926>>, <<124928,125124>>,
    <<125127,125135>>, <<125184,125251>>, <<125259,125259>>,
    <<125264,125273>>, <<126065,126123>>, <<126125,126127>>,
    <<126129,126132>>, <<126209,126253>>, <<126255,126269>>,
    <<126464,126467>>, <<126469,126495>>, <<126497,126498>>,
    <<126500,126500>>, <<126503,126503>>, <<126505,126514>>,
    <<126516,126519>>, <<126521,126521>>, <<126523,126523>>,
    <<126530,126530>>, <<126535,126535>>, <<126537,126537>>,
    <<126539,126539>>, <<126541,126543>>, <<126545,126546>>,
    <<126548,126548>>, <<126551,126551>>, <<126553,126553>>,
    <<126555,126555>>, <<126557,126557>>, <<126559,126559>>,
    <<126561,126562>>, <<126564,126564>>, <<126567,126570>>,
    <<126572,126578>>, <<126580,126583>>, <<126585,126588>>,
    <<126590,126590>>, <<126592,126601>>, <<126603,126619>>,
    <<126625,126627>>, <<126629,126633>>, <<126635,126651>>,
    <<127232,127244>>, <<130032,130041>>, <<131072,173791>>,
    <<173824,177976>>, <<177984,178205>>, <<178208,183969>>,
    <<183984,191456>>, <<194560,195101>>, <<196608,201546>> }

IsWord(c) == \E r \in WordRanges : r[1] <= c /\ c <= r[2]

\* "export const "
LitExportConst == <<101, 120, 112, 111, 114, 116, 32, 99, 111, 110, 115, 116, 32>>
\* " = "
LitAssign == <<32, 61, 32>>
\* "React.memo<"
LitMemo == <<82, 101, 97, 99, 116, 46, 109, 101, 109, 111, 60>>
\* ">("
LitMemoClose == <<62, 40>>
\* "({"
LitParenBrace == <<40, 123>>
\* "  "
LitIndent == <<32, 32>>
\* "const { colors"
LitColors == <<99, 111, 110, 115, 116, 32, 123, 32, 99, 111, 108, 111, 114, 115>>
\* "const styles"
LitStyles == <<99, 111, 110, 115, 116, 32, 115, 116, 121, 108, 101, 115>>
\* "}) => {"
LitArrow == <<125, 41, 32, 61, 62, 32, 123>>

\* the literal `lit` occurs in t starting at position p
LitAt(t, p, lit) ==
    /\ p + Len(lit) - 1 <= Len(t)
    /\ \A k \in 1..Len(lit) : t[p + k - 1] = lit[k]

RECURSIVE SkipWord(_, _)
\* position after the longest run of \w characters starting at p
SkipWord(t, p) ==
    IF p <= Len(t) /\ IsWord(t[p]) THEN SkipWord(t, p + 1) ELSE p

RECURSIVE SkipNotGt(_, _)
\* position after the longest run of [^>] characters starting at p
SkipNotGt(t, p) ==
    IF p <= Len(t) /\ t[p] # GT THEN SkipNotGt(t, p + 1) ELSE p

RECURSIVE SkipNotNl(_, _)
\* position after the longest run of [^\n] characters starting at p
SkipNotNl(t, p) ==
    IF p <= Len(t) /\ t[p] # NL THEN SkipNotNl(t, p + 1) ELSE p

-----------------------------------------------------------------------------
(* pattern, group by group.  Every operator returns the position after the *)
(* part it matched, or 0 when that part does not match at p.               *)
(*                                                                         *)
(* The greedy runs \w+, [^>]+ and [^\n]+ are each followed in the pattern  *)
(* by a character outside their class (" ", ">", "\n"), so the only run    *)
(* length that lets the rest match is the longest one.                     *)

\* (?:React\.memo<[^>]+>\()
MemoWrapper(t, p) ==
    IF ~LitAt(t, p, LitMemo) THEN 0
    ELSE LET a == p + Len(LitMemo)
             b == SkipNotGt(t, a)
         IN  IF b > a /\ LitAt(t, b, LitMemoClose) THEN b + Len(LitMemoClose) ELSE 0

\* the rest of group 1 after `export const `: \w+ has taken [a, b)
AfterName(t, a, b) ==
    IF b = a \/ ~LitAt(t, b, LitAssign) THEN 0
    ELSE LET c == b + Len(LitAssign)
             m == MemoWrapper(t, c)
         IN  IF m # 0 /\ LitAt(t, m, LitParenBrace)
                 THEN m + Len(LitParenBrace)
             ELSE IF LitAt(t, c, LitParenBrace)
                 THEN c + Len(LitParenBrace)
             ELSE 0

\* group 1: (export const \w+ = (?:React\.memo<[^>]+>\()?\(\{)
func_start_end(t, p) ==
    IF ~LitAt(t, p, LitExportConst) THEN 0
    ELSE AfterName(t, p + Len(LitExportConst),
                   SkipWord(t, p + Len(LitExportConst)))

\* one line `lit[^\n]+` starting at p (the line terminator is not consumed)
LitThenRest(t, p, lit) ==
    IF ~LitAt(t, p, lit) THEN 0
    ELSE LET a == p + Len(lit)
             b == SkipNotNl(t, a)
         IN  IF b > a THEN b ELSE 0

\* group 2: (const \{ colors[^\n]+\n  const styles[^\n]+)
hooks_end(t, p) ==
    LET a == LitThenRest(t, p, LitColors)
    IN  IF a = 0 \/ ~LitAt(t, a, <<NL>> \o LitIndent) THEN 0
        ELSE LitThenRest(t, a + 3, LitStyles)

\* variant: an empty line is accepted as a parameter line too
ParamLine_blank_ok(t, p) ==
    IF p <= Len(t) /\ t[p] = NL THEN p + 1
    ELSE IF ~LitAt(t, p, LitIndent) THEN 0
    ELSE LET a == p + Len(LitIndent)
             b == SkipNotNl(t, a)
         IN  IF b > a /\ b <= Len(t) THEN b + 1 ELSE 0

\* one iteration of (?:  [^\n]+,?\n): after [^\n]+ has taken the rest of the
\* line, ,? matches empty; a shorter [^\n]+ leaves a character that is
\* neither the optional comma followed by \n nor \n, except a final comma,
\* which gives the same end position.
ParamLine(t, p) ==
    IF ~LitAt(t, p, LitIndent) THEN 0
    ELSE LET a == p + Len(LitIndent)
             b == SkipNotNl(t, a)
         IN  IF b > a /\ b <= Len(t) THEN b + 1 ELSE 0

RECURSIVE ParamEnds(_, _)
\* the positions after 1, 2, ... iterations of (?:  [^\n]+,?\n)+ from p
ParamEnds(t, p) ==
    LET a == ParamLine(t, p)
    IN  IF a = 0 THEN {} ELSE {a} \cup ParamEnds(t, a)

Max(S) == CHOOSE x \in S : \A y \in S : y <= x

RECURSIVE SkipNl(_, _)
SkipNl(t, p) == IF p <= Len(t) /\ t[p] = NL THEN SkipNl(t, p + 1) ELSE p

\* variant: \n+ instead of \n\n, any number of blank lines
Separator_lenient(t, p) == IF LitAt(t, p, <<NL>>) THEN SkipNl(t, p) ELSE 0

\* \n\n between group 2 and group 3
Separator(t, p) == IF LitAt(t, p, <<NL, NL>>) THEN p + 2 ELSE 0

NoMatch == [ok |-> FALSE]

\* the pattern after group 1, which has matched [s, e1) (e1 = 0: not
\* matched)
AfterHeader(t, s, e1) ==
        IF e1 = 0 \/ ~LitAt(t, e1, <<NL>> \o LitIndent) THEN NoMatch
        ELSE
        LET s2 == e1 + 3
            e2 == hooks_end(t, s2)
        IN  IF e2 = 0 \/ Separator(t, e2) = 0 THEN NoMatch
            ELSE
            LET s3 == Separator(t, e2)
                \* greedy +: the most iterations after which the closer matches
                ends == {e \in ParamEnds(t, s3) : LitAt(t, e, LitArrow)}
            IN  IF ends = {} THEN NoMatch
                ELSE LET e3 == Max(ends)
                     IN  [ok |-> TRUE, start |-> s,
                          g1 |-> s, g1_end |-> e1,
                          g2 |-> s2, g2_end |-> e2,
                          g3 |-> s3, g3_end |-> e3,
                          g4 |-> e3, g4_end |-> e3 + Len(LitArrow)]

\* The whole pattern tried at start position s.  Group k spans
\* [gk, gk_end) and the match spans [s, g4_end).
pattern(t, s) == AfterHeader(t, s, func_start_end(t, s))

\* the text of [a, b)
Span(t, a, b) == SubSeq(t, a, b - 1)

\* variant: the preamble is emitted before the parameter lines
replacer_hooks_first(t, m) ==
    Span(t, m.g1, m.g1_end) \o <<NL>> \o LitIndent \o Span(t, m.g2, m.g2_end)
        \o <<NL>> \o Span(t, m.g3, m.g3_end) \o Span(t, m.g4, m.g4_end) \o <<NL>>

\* variant: the preamble is emitted with two more spaces of indentation
replacer_deeper(t, m) ==
    Span(t, m.g1, m.g1_end) \o <<NL>> \o Span(t, m.g3, m.g3_end)
        \o Span(t, m.g4, m.g4_end) \o <<NL>> \o LitIndent \o LitIndent
        \o Span(t, m.g2, m.g2_end) \o <<NL>>

\* replacer: f"{func_start}\n{params}{func_arrow}\n  {hooks}\n"
replacer(t, m) ==
    LET func_start == Span(t, m.g1, m.g1_end)
        hooks == Span(t, m.g2, m.g2_end)
        params == Span(t, m.g3, m.g3_end)
        func_arrow == Span(t, m.g4, m.g4_end)
    IN  func_start \o <<NL>> \o params \o func_arrow \o <<NL>> \o LitIndent
            \o hooks \o <<NL>>

Min(S) == CHOOSE x \in S : \A y \in S : x <= y

\* pattern.search(t, pos): the leftmost start >= pos at which the pattern
\* matches, or 0
Search(t, pos) ==
    LET starts == {s \in pos..Len(t) : pattern(t, s).ok}
    IN  IF starts = {} THEN 0 ELSE Min(starts)

\* variant: count=1, only the first match is replaced
SubFrom_first_only(t, pos) ==
    LET s == Search(t, pos)
    IN  IF s = 0 THEN Span(t, pos, Len(t) + 1)
        ELSE LET m == pattern(t, s)
             IN  Span(t, pos, s) \o replacer(t, m) \o Span(t, m.g4_end, Len(t) + 1)

RECURSIVE SubFrom(_, _)
\* re.sub from position pos on: copy up to the next match, emit its
\* replacement, continue after the match
SubFrom(t, pos) ==
    LET s == Search(t, pos)
    IN  IF s = 0 THEN Span(t, pos, Len(t) + 1)
        ELSE LET m == pattern(t, s)
             IN  Span(t, pos, s) \o replacer(t, m) \o SubFrom(t, m.g4_end)

\* re.sub(pattern, replacer, content)
re_sub(t) == SubFrom(t, 1)

RECURSIVE MatchesFrom(_, _)
\* the matches re.sub replaces, in order (re.finditer)
MatchesFrom(t, pos) ==
    LET s == Search(t, pos)
    IN  IF s = 0 THEN <<>>
        ELSE <<pattern(t, s)>> \o MatchesFrom(t, pattern(t, s).g4_end)

Matches(t) == MatchesFrom(t, 1)

\* line 58: the text counts as changed when it differs from the original
Result(t, new) == [newText |-> new, changed |-> new # t]

\* PatternRewriter.rewrite of the spec: fix_file's lines 34, 56, 58
rewrite(t) == Result(t, re_sub(t))

-----------------------------------------------------------------------------
(* Input texts of the rewrite harness.                                     *)

\* "export const A = ({"
HPlain == LitExportConst \o <<65>> \o LitAssign \o LitParenBrace
\* "export const A? = React.memo<P>(({" where ? is U+00E9, a letter outside
\* ASCII
HMemo == LitExportConst \o <<65, 233>> \o LitAssign \o LitMemo
             \o <<80>>
             \o LitMemoClose \o LitParenBrace
\* "export const B = ({"
HInner == LitExportConst \o <<66>> \o LitAssign \o LitParenBrace

\* "  const { colors c" and "  const styles s"
Pre1 == LitIndent \o LitColors \o <<32, 99>>
Pre2 == LitIndent \o LitStyles \o <<32, 115>>
\* a second preamble line that ends in the text of a header
Pre2Hdr == Pre2 \o <<SP>> \o HInner

\* a bare identifier with a trailing comma, one without, and a parameter
\* with a default value: "  p,", "  p", "  q = 1,"
PBare == LitIndent \o <<112, 44>>
PLast == LitIndent \o <<112>>
PDefault == LitIndent \o <<113, 32, 61, 32, 49, 44>>
ParamKinds == {PBare, PDefault}

RECURSIVE Repeat(_, _)
Repeat(s, n) == IF n = 0 THEN <<>> ELSE s \o Repeat(s, n - 1)

RECURSIVE JoinLines(_)
\* every line followed by its "\n"
JoinLines(ls) == IF ls = <<>> THEN <<>> ELSE Head(ls) \o <<NL>> \o JoinLines(Tail(ls))

ParamSeqs == UNION {[1..n -> ParamKinds] : n \in 1..MaxParams}

\* header, two preamble lines, `blanks` empty lines, the parameter lines,
\* `gap` empty lines, the closer
Block(hdr, pre2, blanks, ps, gap) ==
    hdr \o (IF hdr = <<>> THEN <<>> ELSE <<NL>>) \o Pre1 \o <<NL>> \o pre2 \o <<NL>>
        \o Repeat(<<NL>>, blanks) \o JoinLines(ps) \o Repeat(<<NL>>, gap) \o LitArrow

\* first block: either header; the second preamble line ends in a header
\* text in some of the blocks with the plain header
FirstBlocks ==
    {Block(hp[1], hp[2], b, ps, g) :
        hp \in {<<HPlain, Pre2>>, <<HPlain, Pre2Hdr>>, <<HMemo, Pre2>>},
        b \in 0..MaxBlanks, ps \in ParamSeqs, g \in 0..1}

\* what follows the first block: nothing, or (directly, or after a line of
\* other text) a second block with or without a header of its own
SecondBlocks ==
    {<<>>} \cup
    {sep \o Block(h, Pre2, b, <<PLast>>, 0) \o <<NL>> :
        sep \in {<<>>, <<NL, 120, NL>>}, h \in {<<>>, HPlain}, b \in 0..MaxBlanks}

\* nothing, or the line "x"
Leads == {<<>>, <<120, NL>>}

Texts == {l \o b1 \o b2 : l \in Leads, b1 \in FirstBlocks, b2 \in SecondBlocks}

-----------------------------------------------------------------------------
(* Stored files.  A file is a sequence of bytes.  open(filepath, 'r') and  *)
(* open(filepath, 'w') are text mode with the default encoding, UTF-8:     *)
(* read decodes the bytes and then applies universal newlines ("\r\n" and  *)
(* a lone "\r" are read as "\n"); write encodes the text, and on POSIX     *)
(* "\n" is stored as "\n".                                                 *)

\* the value of disk for a file that is not there: no bytes, -1 is no byte
Missing == <<-1>>

\* str.encode('utf-8') of one character
Encode1(c) ==
    IF c < 128 THEN <<c>>
    ELSE IF c < 2048 THEN <<192 + (c \div 64), 128 + (c % 64)>>
    ELSE IF c < 65536
        THEN <<224 + (c \div 4096), 128 + ((c \div 64) % 64), 128 + (c % 64)>>
    ELSE <<240 + (c \div 262144), 128 + ((c \div 4096) % 64),
           128 + ((c \div 64) % 64), 128 + (c % 64)>>

RECURSIVE EncodeRange(_, _, _)
\* the bytes of the characters t[lo..hi], one after the other
EncodeRange(t, lo, hi) ==
    IF lo > hi THEN <<>>
    ELSE IF lo = hi THEN Encode1(t[lo])
    ELSE EncodeRange(t, lo, (lo + hi) \div 2)
             \o EncodeRange(t, (lo + hi) \div 2 + 1, hi)

\* the bytes f.write(t) stores for the text t
Encode(t) == EncodeRange(t, 1, Len(t))

\* b[i] is a continuation byte 10xxxxxx
Cont(b, i) == i <= Len(b) /\ b[i] >= 128 /\ b[i] <= 191

\* the length of the well-formed UTF-8 sequence that starts at b[i], or 0
\* (no overlong forms, no surrogates, nothing above U+10FFFF)
CharLen(b, i) ==
    IF b[i] < 128 THEN 1
    ELSE IF b[i] >= 194 /\ b[i] <= 223 /\ Cont(b, i + 1) THEN 2
    ELSE IF /\ b[i] >= 224 /\ b[i] <= 239 /\ Cont(b, i + 1) /\ Cont(b, i + 2)
            /\ (b[i] = 224 => b[i + 1] >= 160)
            /\ (b[i] = 237 => b[i + 1] <= 159) THEN 3
    ELSE IF /\ b[i] >= 240 /\ b[i] <= 244
            /\ Cont(b, i + 1) /\ Cont(b, i + 2) /\ Cont(b, i + 3)
            /\ (b[i] = 240 => b[i + 1] >= 144)
            /\ (b[i] = 244 => b[i + 1] <= 143) THEN 4
    ELSE 0

\* the character encoded by the n bytes that start at b[i]
CodeAt(b, i, n) ==
    IF n = 1 THEN b[i]
    ELSE IF n = 2 THEN (b[i] - 192) * 64 + (b[i + 1] - 128)
    ELSE IF n = 3
        THEN (b[i] - 224) * 4096 + (b[i + 1] - 128) * 64 + (b[i + 2] - 128)
    ELSE (b[i] - 240) * 262144 + (b[i + 1] - 128) * 4096
             + (b[i + 2] - 128) * 64 + (b[i + 3] - 128)

\* In well-formed UTF-8 the characters start at the bytes that are not
\* continuation bytes, and every continuation byte belongs to the sequence
\* of the start byte before it.
IsStart(b, i) == ~Cont(b, i)
Covered(b, i) ==
    \E j \in 1..i : j >= i - 3 /\ IsStart(b, j) /\ j + CharLen(b, j) > i

\* f.read() does not raise UnicodeDecodeError: no byte is outside the
\* well-formed sequences
Decodable(b) == {i \in 1..Len(b) : ~Covered(b, i)} = {}

RECURSIVE DecodeRange(_, _, _)
\* the characters that start at the bytes b[lo..hi], in order
DecodeRange(b, lo, hi) ==
    IF lo > hi THEN <<>>
    ELSE IF lo = hi
        THEN IF IsStart(b, lo) /\ CharLen(b, lo) > 0
                 THEN <<CodeAt(b, lo, CharLen(b, lo))>>
                 ELSE <<>>
    ELSE DecodeRange(b, lo, (lo + hi) \div 2)
             \o DecodeRange(b, (lo + hi) \div 2 + 1, hi)

\* bytes.decode('utf-8') of bytes that are Decodable
Decode(b) == DecodeRange(b, 1, Len(b))

RECURSIVE NewlinesRange(_, _, _)
\* newline translation of the characters t[lo..hi]
NewlinesRange(t, lo, hi) ==
    IF lo > hi THEN <<>>
    ELSE IF lo = hi
        THEN IF t[lo] = NL /\ lo > 1 /\ t[lo - 1] = CR THEN <<>>
             ELSE IF t[lo] = CR THEN <<NL>>
             ELSE <<t[lo]>>
    ELSE NewlinesRange(t, lo, (lo + hi) \div 2)
             \o NewlinesRange(t, (lo + hi) \div 2 + 1, hi)

\* newline translation of f.read(): the "\n" of a "\r\n" is dropped and
\* every "\r" becomes "\n"
UniversalNewlines(t) == NewlinesRange(t, 1, Len(t))

\* what f.read() returns for the stored bytes b
ReadOf(b) == UniversalNewlines(Decode(b))

RECURSIVE ToCRLF(_)
\* the same text with "\r\n" line endings
ToCRLF(t) ==
    IF t = <<>> THEN <<>>
    ELSE (IF Head(t) = NL THEN <<CR, NL>> ELSE <<Head(t)>>) \o ToCRLF(Tail(t))

\* "\n  r\n"
Body == <<NL>> \o LitIndent \o <<114, NL>>

\* "export const A? = ({" where ? is U+00E9, two bytes in the file
HAccent == LitExportConst \o <<65, 233>> \o LitAssign \o LitParenBrace

\* Scenario A: one defect block, preceded and followed by other text
TDefect == <<120, NL>> \o Block(HAccent, Pre2, 1, <<PBare>>, 0) \o Body
\* the same text with "\r\n" line endings
TDefectCRLF == ToCRLF(TDefect)
\* Scenario B: no blank line between preamble and parameters
TNoBlank == Block(HPlain, Pre2, 0, <<PBare>>, 0) \o Body
\* a file that is not UTF-8: "x", the byte 0xFF, "\n"
FNotUTF8 == <<120, 255, NL>>

DiskTexts == {Encode(TDefect), Encode(TDefectCRLF), Encode(TNoBlank), FNotUTF8}

\* `files`, by position in the list
files == 1..NumFiles

Outcomes == {"fixed", "skipped-no-change", "skipped-missing", "error"}

-----------------------------------------------------------------------------
(* The rewrite harness: apply rewrite to T, then to its own output.        *)

DriverIdle ==
    /\ disk = <<>> /\ disk0 = <<>> /\ idx = 0 /\ pc = "idle"
    /\ content = <<>> /\ original = <<>> /\ outcome = <<>> /\ log = <<>>
    /\ fixed = 0

RewriteInit ==
    /\ text \in Texts
    /\ out1 = <<>> /\ out2 = <<>> /\ changed1 = FALSE /\ changed2 = FALSE
    /\ stage = "input"
    /\ DriverIdle

RewriteOnce ==
    /\ stage = "input"
    /\ \E r \in {rewrite(text)} : out1' = r.newText /\ changed1' = r.changed
    /\ stage' = "once"
    /\ UNCHANGED <<text, out2, changed2>>
    /\ UNCHANGED driverVars

RewriteTwice ==
    /\ stage = "once"
    /\ \E r \in {rewrite(out1)} : out2' = r.newText /\ changed2' = r.changed
    /\ stage' = "twice"
    /\ UNCHANGED <<text, out1, changed1>>
    /\ UNCHANGED driverVars

RewriteNext == RewriteOnce \/ RewriteTwice

RewriteSpec == RewriteInit /\ [][RewriteNext]_vars

-----------------------------------------------------------------------------
(* The batch driver: fixed = sum(fix_file(f) for f in files).              *)

RewriteIdle ==
    /\ text = <<>> /\ out1 = <<>> /\ out2 = <<>>
    /\ changed1 = FALSE /\ changed2 = FALSE /\ stage = "idle"

Init ==
    /\ disk \in [files -> DiskTexts \cup {Missing}]
    /\ disk0 = disk
    /\ idx = 1
    /\ pc = "start"
    /\ content = <<>> /\ original = <<>>
    /\ outcome = [f \in files |-> "none"]
    /\ log = <<>>
    /\ fixed = 0
    /\ RewriteIdle

\* variant: an error ends the batch
Return_abort_on_error(oc, result) ==
    /\ outcome' = [outcome EXCEPT ![idx] = oc]
    /\ log' = Append(log, idx)
    /\ fixed' = fixed + (IF result THEN 1 ELSE 0)
    /\ idx' = idx + 1
    /\ pc' = IF idx = NumFiles \/ oc = "error" THEN "report" ELSE "open_r"

\* fix_file(files[idx]) has printed its line and returns `result`; the
\* generator of line 75 adds it to the sum and moves to the next file
Return(oc, result) ==
    /\ outcome' = [outcome EXCEPT ![idx] = oc]
    /\ log' = Append(log, idx)
    /\ fixed' = fixed + (IF result THEN 1 ELSE 0)
    /\ idx' = idx + 1
    /\ pc' = IF idx = NumFiles THEN "report" ELSE "open_r"

\* an exception raised inside the try of lines 30-65 that is not a
\* FileNotFoundError: control passes to the handler of lines 70-72
Raise ==
    /\ pc' = "print_error"
    /\ UNCHANGED <<idx, outcome, log, fixed>>

\* an exception raised inside a handler, or by line 74 or 76: it leaves fix_file,
\* the generator and sum(), and the script stops with a traceback
Propagate ==
    /\ pc' = "crashed"
    /\ UNCHANGED <<idx, outcome, log, fixed>>

\* line 74: the opening message
Start ==
    /\ pc = "start"
    /\ \/ /\ pc' = "open_r"
          /\ UNCHANGED <<idx, outcome, log, fixed>>
       \/ Propagate
    /\ UNCHANGED <<disk, disk0, content, original>>
    /\ UNCHANGED rewriteVars

\* line 31: open(filepath, 'r')
OpenRead ==
    /\ pc = "open_r"
    /\ \/ /\ disk[idx] = Missing            \* FileNotFoundError (ENOENT)
          /\ pc' = "print_missing"
          /\ UNCHANGED <<idx, outcome, log, fixed>>
       \/ Raise                             \* another OSError, absent (ENOTDIR,
                                            \* EACCES on the path) or present
       \/ /\ disk[idx] # Missing
          /\ pc' = "read"
          /\ UNCHANGED <<idx, outcome, log, fixed>>
    /\ UNCHANGED <<disk, disk0, content, original>>
    /\ UNCHANGED rewriteVars

\* lines 32-34: content = f.read(); original = content
Read ==
    /\ pc = "read"
    /\ \/ /\ Raise                          \* OSError, UnicodeDecodeError
          /\ UNCHANGED <<content, original>>
       \/ /\ Decodable(disk[idx])
          /\ content' = ReadOf(disk[idx])
          /\ original' = content'
          /\ pc' = "sub"
          /\ UNCHANGED <<idx, outcome, log, fixed>>
    /\ UNCHANGED <<disk, disk0>>
    /\ UNCHANGED rewriteVars

\* lines 45-56: content = re.sub(pattern, replacer, content)
Sub ==
    /\ pc = "sub"
    /\ \/ /\ Raise                          \* e.g. MemoryError
          /\ UNCHANGED content
       \/ /\ content' = re_sub(content)
          /\ pc' = "compare"
          /\ UNCHANGED <<idx, outcome, log, fixed>>
    /\ UNCHANGED <<disk, disk0, original>>
    /\ UNCHANGED rewriteVars

\* line 58: if content != original
Compare ==
    /\ pc = "compare"
    /\ pc' = IF content # original THEN "open_w" ELSE "print_nochange"
    /\ UNCHANGED <<disk, disk0, idx, content, original, outcome, log, fixed>>
    /\ UNCHANGED rewriteVars

\* line 59: open(filepath, 'w') truncates the file when it succeeds
OpenWrite ==
    /\ pc = "open_w"
    /\ \/ /\ disk' = [disk EXCEPT ![idx] = <<>>]
          /\ pc' = "write"
          /\ UNCHANGED <<idx, outcome, log, fixed>>
       \/ /\ Raise                          \* e.g. PermissionError
          /\ UNCHANGED disk
    /\ UNCHANGED <<disk0, content, original>>
    /\ UNCHANGED rewriteVars

\* what a failed write can leave behind: any prefix of the encoded bytes,
\* the empty one and (an error at close, after the last byte) the whole
\* one included; a prefix can end inside a character
PartialWrites(c) ==
    LET e == Encode(c) IN {SubSeq(e, 1, k) : k \in 0..Len(e)}

\* line 60 and the close of the with block
Write ==
    /\ pc = "write"
    /\ \/ /\ disk' = [disk EXCEPT ![idx] = Encode(content)]
          /\ pc' = "print_fixed"
          /\ UNCHANGED <<idx, outcome, log, fixed>>
       \/ /\ \E part \in PartialWrites(content) :   \* OSError while writing
                disk' = [disk EXCEPT ![idx] = part]
          /\ Raise
    /\ UNCHANGED <<disk0, content, original>>
    /\ UNCHANGED rewriteVars

\* lines 61-62: print the "Fixed" line, return True.  The print is inside
\* the try: when it raises (closed pipe, full disk, an encoding that cannot
\* hold the line) the handler of lines 70-72 runs.
PrintFixed ==
    /\ pc = "print_fixed"
    /\ \/ Return("fixed", TRUE)
       \/ Raise
    /\ UNCHANGED <<disk, disk0, content, original>>
    /\ UNCHANGED rewriteVars

\* lines 63-65: print the "Skip ... (no changes)" line, return False; inside
\* the try as well
PrintNoChange ==
    /\ pc = "print_nochange"
    /\ \/ Return("skipped-no-change", FALSE)
       \/ Raise
    /\ UNCHANGED <<disk, disk0, content, original>>
    /\ UNCHANGED rewriteVars

\* lines 67-69: print the "Skip ... (not found)" line, return False.  The
\* print is inside the handler: when it raises nothing catches it.
PrintMissing ==
    /\ pc = "print_missing"
    /\ \/ Return("skipped-missing", FALSE)
       \/ Propagate
    /\ UNCHANGED <<disk, disk0, content, original>>
    /\ UNCHANGED rewriteVars

\* lines 70-72: print the "Error" line, return False; inside the handler
PrintError ==
    /\ pc = "print_error"
    /\ \/ Return("error", FALSE)
       \/ Propagate
    /\ UNCHANGED <<disk, disk0, content, original>>
    /\ UNCHANGED rewriteVars

\* line 76: the final report
Report ==
    /\ pc = "report"
    /\ \/ /\ pc' = "done"
          /\ UNCHANGED <<idx, outcome, log, fixed>>
       \/ Propagate
    /\ UNCHANGED <<disk, disk0, content, original>>
    /\ UNCHANGED rewriteVars

Next ==
    \/ Start \/ OpenRead \/ Read \/ Sub \/ Compare \/ OpenWrite \/ Write
    \/ PrintFixed \/ PrintNoChange \/ PrintMissing \/ PrintError \/ Report

Spec == Init /\ [][Next]_vars

\* the script runs until it ends: a step that can be taken is taken
FairSpec == Spec /\ WF_vars(Next)

-----------------------------------------------------------------------------
(* Line structure of a text, used to state the properties.                 *)

RECURSIVE SplitLines(_)
\* the pieces of t between "\n" characters (n + 1 pieces for n newlines)
SplitLines(t) ==
    LET e == SkipNotNl(t, 1)
    IN  IF e > Len(t) THEN <<t>>
        ELSE <<Span(t, 1, e)>> \o SplitLines(Span(t, e + 1, Len(t) + 1))

RECURSIVE Indent(_)
\* number of leading spaces
Indent(l) == IF l # <<>> /\ Head(l) = SP THEN 1 + Indent(Tail(l)) ELSE 0

CountNL(t) == Cardinality({k \in 1..Len(t) : t[k] = NL})

IsColorsLine(l) ==
    LitAt(l, 1, LitIndent \o LitColors) /\ Len(l) > Len(LitIndent \o LitColors)
IsStylesLine(l) ==
    LitAt(l, 1, LitIndent \o LitStyles) /\ Len(l) > Len(LitIndent \o LitStyles)
IsCloserLine(l) == LitAt(l, 1, LitArrow)
\* two spaces followed by at least one more character
IsIndentedLine(l) == LitAt(l, 1, LitIndent) /\ Len(l) > Len(LitIndent)
\* a single bare identifier with an optional trailing comma
IsBareIdentifierLine(l) ==
    LET body == SubSeq(l, Indent(l) + 1, Len(l))
        name == IF body # <<>> /\ body[Len(body)] = COMMA
                THEN SubSeq(body, 1, Len(body) - 1) ELSE body
    IN  name # <<>> /\ \A k \in 1..Len(name) : IsWord(name[k])

\* the header starts at s and its line ends where the header ends
HeaderAt(t, s) ==
    LET e == func_start_end(t, s) IN e # 0 /\ e <= Len(t) /\ t[e] = NL

\* the lines that follow the line of the header that starts at s
LinesAfterHeader(t, s) == SplitLines(Span(t, func_start_end(t, s) + 1, Len(t) + 1))

\* steps 2-5 on the lines after a header: two preamble lines, one blank
\* line, one or more parameter lines, the closer line
ShapeAfterHeader(ls, IsParam(_)) ==
    /\ Len(ls) >= 5
    /\ IsColorsLine(ls[1]) /\ IsStylesLine(ls[2]) /\ ls[3] = <<>>
    /\ \E n \in 1..(Len(ls) - 4) :
          /\ \A k \in 1..n : IsParam(ls[3 + k])
          /\ IsCloserLine(ls[4 + n])

HasShape(t, IsParam(_)) ==
    \E s \in 1..Len(t) :
        HeaderAt(t, s) /\ ShapeAfterHeader(LinesAfterHeader(t, s), IsParam)

HasPreamble(t, s) ==
    /\ HeaderAt(t, s)
    /\ LET ls == LinesAfterHeader(t, s)
       IN  Len(ls) >= 3 /\ IsColorsLine(ls[1]) /\ IsStylesLine(ls[2])

RECURSIVE BlankRun(_, _)
\* number of consecutive empty lines from index k on (a line counts when
\* its "\n" is there, that is when it is not the last piece)
BlankRun(ls, k) ==
    IF k < Len(ls) /\ ls[k] = <<>> THEN 1 + BlankRun(ls, k + 1) ELSE 0

RECURSIVE IndentedRun(_, _)
IndentedRun(ls, k) ==
    IF k < Len(ls) /\ IsIndentedLine(ls[k]) THEN 1 + IndentedRun(ls, k + 1) ELSE 0

RECURSIVE LinesLen(_, _)
\* characters taken by the first k lines with their "\n"
LinesLen(ls, k) == IF k = 0 THEN 0 ELSE LinesLen(ls, k - 1) + Len(ls[k]) + 1

\* all positions at which the pattern matches, and whether they are disjoint
AllStarts(t) == {s \in 1..Len(t) : pattern(t, s).ok}
NonOverlapping(t) ==
    \A a, b \in AllStarts(t) : a < b => pattern(t, a).g4_end <= b

\* lines of the matched span m of t, and of the same span of the output o
InLines(t, m) == SplitLines(Span(t, m.start, m.g4_end))
OutLines(o, m) == SplitLines(Span(o, m.start, m.g4_end))
HeaderLines(t, m) == CountNL(Span(t, m.g1, m.g1_end)) + 1
ParamCount(t, m) == CountNL(Span(t, m.g3, m.g3_end))

-----------------------------------------------------------------------------
(* Properties of rewrite (RewriteSpec).                                    *)

\* C1 (as claimed): rewrite applied to the output of rewrite(T) returns it
\* unchanged with changed = false, for every T.
C1_Idempotent == stage = "twice" => out2 = out1 /\ changed2 = FALSE

\* C2 (as claimed): a text without the five-step shape, its parameter lines
\* being bare identifiers, is returned unchanged with changed = false.
C2_NoOpWithoutBareShape ==
    (stage = "once" /\ ~HasShape(text, IsBareIdentifierLine))
        => out1 = text /\ changed1 = FALSE

\* C2 (amended): a text without the five-step shape, its parameter lines
\* being any lines of two spaces followed by at least one character, is
\* returned unchanged with changed = false.
C2_NoOpWithoutShape ==
    (stage = "once" /\ ~HasShape(text, IsIndentedLine))
        => out1 = text /\ changed1 = FALSE

\* a header with its preamble is there, the shape is not, and rewrite ran
C2_Witness ==
    /\ stage = "once"
    /\ \E s \in 1..Len(text) : HasPreamble(text, s)
    /\ ~HasShape(text, IsIndentedLine)

\* C4: every matched block is emitted as header, parameter lines in order,
\* closer, the two preamble lines in order, and an empty piece after the
\* final newline; changed = true when a block is matched.
C4_CorrectedForm ==
    stage = "once" =>
        LET ms == Matches(text)
        IN  /\ ms # <<>> => changed1
            /\ \A i \in 1..Len(ms) :
                  LET inl == InLines(text, ms[i])
                      nh == HeaderLines(text, ms[i])
                      np == ParamCount(text, ms[i])
                  IN  OutLines(out1, ms[i]) =
                          SubSeq(inl, 1, nh) \o SubSeq(inl, nh + 4, nh + 3 + np)
                              \o <<inl[nh + 4 + np], inl[nh + 1], inl[nh + 2], <<>>>>

\* a block with two parameter lines was rewritten
C4_Witness ==
    /\ stage = "once"
    /\ \E i \in 1..Len(Matches(text)) : ParamCount(text, Matches(text)[i]) >= 2

RECURSIVE Stitch(_, _, _, _)
\* the text around the matches ms[i..], each block replaced by the result of
\* rewriting that block on its own
Stitch(t, ms, i, pos) ==
    IF i > Len(ms) THEN Span(t, pos, Len(t) + 1)
    ELSE Span(t, pos, ms[i].start)
             \o rewrite(Span(t, ms[i].start, ms[i].g4_end)).newText
             \o Stitch(t, ms, i + 1, ms[i].g4_end)

\* C5: when the text holds two or more blocks and they do not overlap, one
\* pass rewrites each of them, each as it is rewritten on its own, and
\* leaves the text before, between and after them as it was.
C5_MultiBlock ==
    (stage = "once" /\ Cardinality(AllStarts(text)) >= 2 /\ NonOverlapping(text)) =>
        LET ms == Matches(text)
        IN  /\ {ms[i].start : i \in 1..Len(ms)} = AllStarts(text)
            /\ \A i \in 1..Len(ms) :
                  rewrite(Span(text, ms[i].start, ms[i].g4_end)).changed
            /\ out1 = Stitch(text, ms, 1, 1)

\* two disjoint blocks with text between them, and text before the first
C5_Witness ==
    /\ stage = "once"
    /\ Cardinality(AllStarts(text)) = 2 /\ NonOverlapping(text)
    /\ \E a, b \in AllStarts(text) : a > 1 /\ pattern(text, a).g4_end < b

\* C9: at a header followed by its two preamble lines, with b empty lines
\* after the preamble, then parameter lines, then g empty lines: when b is
\* not 1, or g is not 0, the pattern does not match at that header, and the
\* region up to the end of those lines is the same in the output unless a
\* block matched at another header overlaps it.
C9_SeparatorStrict ==
    stage = "once" =>
        \A s \in 1..Len(text) :
            HasPreamble(text, s) =>
                LET ls == LinesAfterHeader(text, s)
                    b == BlankRun(ls, 3)
                    np == IndentedRun(ls, 3 + b)
                    g == BlankRun(ls, 3 + b + np)
                    rEnd == func_start_end(text, s) + 1
                              + LinesLen(ls, 2 + b + np + g)
                    ms == Matches(text)
                IN  (b # 1 \/ (np >= 1 /\ g >= 1)) =>
                        /\ ~pattern(text, s).ok
                        /\ (\A i \in 1..Len(ms) :
                               ms[i].g4_end <= s \/ rEnd <= ms[i].start)
                             => Span(out1, s, rEnd) = Span(text, s, rEnd)

\* the rewrite has run on a text whose preamble is followed by two blank
\* lines, then parameter lines, then the closer
C9_Witness ==
    /\ stage = "once"
    /\ \E s \in 1..Len(text) :
          /\ HasPreamble(text, s)
          /\ LET ls == LinesAfterHeader(text, s)
                 b == BlankRun(ls, 3)
                 np == IndentedRun(ls, 3 + b)
             IN  b = 2 /\ np >= 1 /\ IsCloserLine(ls[3 + b + np])

\* C10 (as claimed): each preamble line is emitted with more indentation
\* than it had in the matched input.
C10_PreambleDeeper ==
    stage = "once" =>
        \A i \in 1..Len(Matches(text)) :
            LET m == Matches(text)[i]
                inl == InLines(text, m)
                outl == OutLines(out1, m)
                nh == HeaderLines(text, m)
                np == ParamCount(text, m)
            IN  /\ Indent(outl[nh + np + 2]) > Indent(inl[nh + 1])
                /\ Indent(outl[nh + np + 3]) > Indent(inl[nh + 2])

\* C10 (amended): each preamble line is emitted with the two spaces of
\* indentation it had in the matched input, one level deeper than the closer
\* line it now follows; the parameter lines keep their indentation.
C10_PreambleIndentKept ==
    stage = "once" =>
        \A i \in 1..Len(Matches(text)) :
            LET m == Matches(text)[i]
                inl == InLines(text, m)
                outl == OutLines(out1, m)
                nh == HeaderLines(text, m)
                np == ParamCount(text, m)
            IN  /\ Indent(outl[nh + np + 2]) = Indent(inl[nh + 1])
                /\ Indent(outl[nh + np + 3]) = Indent(inl[nh + 2])
                /\ Indent(outl[nh + np + 2]) = Indent(outl[nh + np + 1]) + Len(LitIndent)
                /\ Indent(outl[nh + np + 3]) = Indent(outl[nh + np + 1]) + Len(LitIndent)
                /\ \A k \in 1..np : Indent(outl[nh + k]) = Indent(inl[nh + 3 + k])

\* a block was matched and rewritten
C10_Witness == stage = "once" /\ Matches(text) # <<>> /\ changed1

-----------------------------------------------------------------------------
(* Properties of the batch driver (Spec, FairSpec).                        *)

\* the rewrite of the text fix_file reads from the stored bytes b, and the
\* bytes of the complete rewritten text
RewriteOf(b) == rewrite(ReadOf(b))
Rewritten(b) == Encode(RewriteOf(b).newText)

\* the last n characters of b
Suffix(b, n) == SubSeq(b, Len(b) - n + 1, Len(b))

\* C3 (as claimed): when a file with exactly one matched block at [i, j) is
\* fixed, the stored content before the block and after it is, character
\* for character, what was stored before the run.  (The stored files have
\* one byte per character outside the block.)
C3_BytesPreserved ==
    \A f \in files :
        (outcome[f] = "fixed" /\ Len(Matches(ReadOf(disk0[f]))) = 1) =>
            LET t == ReadOf(disk0[f])
                m == Matches(t)[1]
                after == Len(t) + 1 - m.g4_end
            IN  /\ Span(disk[f], 1, m.start) = Span(disk0[f], 1, m.start)
                /\ Suffix(disk[f], after) = Suffix(disk0[f], after)

\* C6 (as claimed): once a file has its outcome, failure or not, its stored
\* content is its original content or the complete rewritten text.
C6_NoPartialWrite ==
    \A f \in files :
        (outcome[f] # "none" /\ disk0[f] # Missing) =>
            disk[f] = disk0[f] \/ disk[f] = Rewritten(disk0[f])

Processed == {f \in files : outcome[f] # "none"}

\* every file before idx has been processed, once and in list order; the
\* final report comes after the last file
InOrder ==
    /\ log = [k \in 1..Len(log) |-> k]
    /\ Processed = 1..Len(log)
    /\ idx = Len(log) + 1
    /\ \A f \in Processed : outcome[f] \in Outcomes
    /\ pc \in {"report", "done"} => Processed = files
    /\ pc \notin {"report", "done", "crashed"} => idx \in files

\* C7: whatever is missing and whatever fails while a file is opened, read,
\* rewritten or written, the files are processed once each in list order,
\* one outcome each, the next file follows every skip and error, and the
\* run ends with the report after the last file.  The claim is about
\* failures over the file list: the run is one in which standard output
\* takes the messages, so the script is never stopped by a print.
C7_ContainedAndCompletes ==
    /\ []InOrder
    /\ [](pc # "crashed") => <>(pc = "done" /\ Processed = files)

\* the run ended with the report; a file that ended in an error was
\* followed by a later file that was fixed
C7_Witness ==
    /\ pc = "done"
    /\ \E f, g \in files : f < g /\ outcome[f] = "error" /\ outcome[g] = "fixed"

\* C8 (as claimed): the outcome of a processed file is one of the four; it
\* is skipped-missing exactly when the file was absent; skipped-no-change only
\* when the rewrite changed nothing, and then the file is as it was; fixed
\* only when the rewrite changed the text and the new text is stored; a
\* present file whose rewrite changes nothing is skipped-no-change unless it
\* failed; and the count is the number of files fixed.
C8_OutcomesAndCount ==
    /\ fixed = Cardinality({f \in files : outcome[f] = "fixed"})
    /\ \A f \in Processed :
          /\ outcome[f] \in Outcomes
          /\ Cardinality({k \in 1..Len(log) : log[k] = f}) = 1
          /\ outcome[f] = "skipped-missing" <=> disk0[f] = Missing
          /\ outcome[f] = "skipped-no-change" =>
                ~RewriteOf(disk0[f]).changed /\ disk[f] = disk0[f]
          /\ outcome[f] = "fixed" =>
                RewriteOf(disk0[f]).changed /\ disk[f] = Rewritten(disk0[f])
          /\ (disk0[f] # Missing /\ ~RewriteOf(disk0[f]).changed) =>
                outcome[f] \in {"skipped-no-change", "error"}

=============================================================================
